---------------------------- MODULE Spec2Model ----------------------------
(***************************************************************************)
(* Model of the editorial SEO audit service of src/server.js (the revision *)
(* at lines 1-595): POST /api/audit validates its input, fetches the page, *)
(* extracts its features, scores eight checks and aggregates their         *)
(* statuses.                                                               *)
(*                                                                         *)
(* A string is a sequence of code points; a code point is written as a     *)
(* one-name TLA+ string.  The message texts of buildMessagesForCheck and   *)
(* globalMessage are presentation only and are not part of the state.      *)
(*                                                                         *)
(* Spec follows one request: pc is the position of its handler, fetched    *)
(* what the network exchange of fetchHtml came to, responses the number of *)
(* responses sent.  SpecLive is the same handler with its scheduling,      *)
(* SpecAgg the aggregation on its own, and SpecConc several requests in    *)
(* flight at once, one record of inflight each.                            *)
(***************************************************************************)
EXTENDS Integers, Sequences, FiniteSets, TLC

VARIABLES pc, url, keyword, fetched, page, extracted, checks, status_global, httpStatus,
          errorCode, responses, inflight

vars == <<pc, url, keyword, fetched, page, extracted, checks, status_global, httpStatus,
          errorCode, responses, inflight>>

(***************************************************************************)
(* Code points                                                             *)
(***************************************************************************)
\* What JavaScript's \s matches, among the code points of the model.
Whitespace == {" ", "\t", "\n"}

\* The combining marks of U+0300..U+036F that NFD splits off the accented
\* letters "e_acute" and "E_acute".
CombiningMarks == {"comb_acute"}

\* Code points outside the Basic Multilingual Plane: two UTF-16 units each.
Astral == {"emoji"}

\* Code points that are neither \p{L}, \p{N} nor \s.
Symbols == {"-", "!", "emoji", "comb_acute"}

(***************************************************************************)
(* Generic sequence helpers                                                *)
(***************************************************************************)
Indices(s) == [i \in 1..Len(s) |-> i]

MapSeq(s, F(_)) == [i \in 1..Len(s) |-> F(s[i])]

\* n copies of the code point c.
Rep(c, n) == [i \in 1..n |-> c]

\* String.prototype.includes
Includes(t, k) == \E i \in 1..(Len(t) - Len(k) + 1) : SubSeq(t, i, i + Len(k) - 1) = k

\* Array.prototype.join(" ") of a list of strings.
RECURSIVE JoinSpace(_)
JoinSpace(l) ==
    IF Len(l) = 0 THEN <<>>
    ELSE IF Len(l) = 1 THEN l[1]
    ELSE l[1] \o <<" ">> \o JoinSpace(Tail(l))

\* String.prototype.split(" "): the segments between consecutive spaces.
SplitSpace(s) ==
    LET seps == <<0>> \o SelectSeq(Indices(s), LAMBDA i : s[i] = " ") \o <<Len(s) + 1>>
    IN  [j \in 1..(Len(seps) - 1) |-> SubSeq(s, seps[j] + 1, seps[j + 1] - 1)]

\* String.prototype.length: the number of UTF-16 code units.
Utf16Length(s) == Len(s) + Len(SelectSeq(s, LAMBDA c : c \in Astral))

\* String.prototype.trim
Trim(s) ==
    LET solid == SelectSeq(Indices(s), LAMBDA i : s[i] \notin Whitespace)
    IN  IF Len(solid) = 0 THEN <<>> ELSE SubSeq(s, solid[1], solid[Len(solid)])

(***************************************************************************)
(* Text normalizer                                                         *)
(***************************************************************************)
\* replace(/\s+/g, " ") then trim: every whitespace run becomes one space.
cleanText(s) ==
    LET runStart(i) == s[i] \notin Whitespace \/ i = 1 \/ s[i - 1] \notin Whitespace
        kept == SelectSeq(Indices(s), runStart)
        collapsed == [j \in 1..Len(kept) |->
                        IF s[kept[j]] \in Whitespace THEN " " ELSE s[kept[j]]]
    IN  Trim(collapsed)

toLowerCase(c) ==
    CASE c = "S" -> "s"
      [] c = "E" -> "e"
      [] c = "O" -> "o"
      [] c = "E_acute" -> "e_acute"
      [] OTHER -> c

\* normalize("NFD") of one code point.
NFD(c) ==
    CASE c = "e_acute" -> <<"e", "comb_acute">>
      [] c = "E_acute" -> <<"E", "comb_acute">>
      [] OTHER -> <<c>>

RECURSIVE normalizeNFD(_)
normalizeNFD(s) ==
    IF Len(s) = 0 THEN <<>>
    ELSE IF Len(s) = 1 THEN NFD(s[1])
    ELSE LET m == Len(s) \div 2
         IN  normalizeNFD(SubSeq(s, 1, m)) \o normalizeNFD(SubSeq(s, m + 1, Len(s)))

stripAccents(s) == SelectSeq(normalizeNFD(s), LAMBDA c : c \notin CombiningMarks)

normalizeForMatch(s) ==
    SelectSeq(stripAccents(MapSeq(cleanText(s), toLowerCase)),
              LAMBDA c : c \notin Symbols)

\* Faulty variant: the UTF-16 length, as in the revision at lines 947-949.
charCount_utf16(s) == Utf16Length(cleanText(s))

\* Array.from(cleanText(s)).length: code points, not UTF-16 units.
charCount(s) == Len(cleanText(s))

\* s without its i-th character.
RemoveAt(s, i) == SubSeq(s, 1, i - 1) \o SubSeq(s, i + 1, Len(s))

\* b is a within one insertion, deletion or substitution of a character.
WithinOneEdit(a, b) ==
    IF Len(a) = Len(b) THEN Cardinality({i \in 1..Len(a) : a[i] # b[i]}) <= 1
    ELSE IF Len(a) = Len(b) + 1 THEN \E i \in 1..Len(a) : RemoveAt(a, i) = b
    ELSE IF Len(b) = Len(a) + 1 THEN \E i \in 1..Len(b) : RemoveAt(b, i) = a
    ELSE FALSE

\* Some word of the normalized text is within one edit of tok.
NearWord(text, tok) ==
    LET words == SplitSpace(normalizeForMatch(text))
    IN  \E i \in 1..Len(words) : WithinOneEdit(words[i], tok)

\* Faulty variant: a keyword of six characters or more is also found when a
\* word of the text is within one edit of it.
containsKeywordExact_fuzzy(text, kw) ==
    LET t == normalizeForMatch(text)
        k == normalizeForMatch(kw)
    IN  IF t = <<>> \/ k = <<>> THEN FALSE
        ELSE Includes(t, k) \/ (Len(k) >= 6 /\ NearWord(text, k))

\* Faulty variant: the same tolerance, whatever the length of the keyword.
containsKeywordExact_fuzzyAll(text, kw) ==
    LET t == normalizeForMatch(text)
        k == normalizeForMatch(kw)
    IN  IF t = <<>> \/ k = <<>> THEN FALSE
        ELSE Includes(t, k) \/ NearWord(text, k)

\* Faulty variant: the guard looks at the strings before they are normalized.
containsKeywordExact_rawGuard(text, kw) ==
    IF text = <<>> \/ kw = <<>> THEN FALSE
    ELSE Includes(normalizeForMatch(text), normalizeForMatch(kw))

\* Faulty variant: no guard against an empty text or keyword.
containsKeywordExact_noGuard(text, kw) ==
    Includes(normalizeForMatch(text), normalizeForMatch(kw))

\* Faulty variant: every word of the keyword is looked for on its own.
containsKeywordExact_perWord(text, kw) ==
    LET t == normalizeForMatch(text)
        k == normalizeForMatch(kw)
        words == SplitSpace(k)
    IN  IF t = <<>> \/ k = <<>> THEN FALSE
        ELSE \A i \in 1..Len(words) : Includes(t, words[i])

containsKeywordExact(text, kw) ==
    LET t == normalizeForMatch(text)
        k == normalizeForMatch(kw)
    IN  IF t = <<>> \/ k = <<>> THEN FALSE ELSE Includes(t, k)

wordsCount(s) ==
    LET t == cleanText(s)
    IN  IF t = <<>> THEN 0 ELSE Len(SplitSpace(t))


(***************************************************************************)
(* Feature extraction (the cheerio selections of POST /api/audit).  A page *)
(* is what the selectors return before cleaning: the text of <title>, the  *)
(* content of <meta name="description">, the texts of the h1, h2 and p     *)
(* elements and the src/alt attributes of the img elements, in document    *)
(* order.  A missing element or attribute is the empty string.             *)
(***************************************************************************)
extractFirstParagraph(p) ==
    LET ps == SelectSeq(MapSeq(p, cleanText), LAMBDA t : Utf16Length(t) >= 40)
    IN  IF Len(ps) > 0 THEN ps[1] ELSE <<>>

extractLastParagraph(p) ==
    LET ps == SelectSeq(MapSeq(p, cleanText), LAMBDA t : Utf16Length(t) >= 40)
    IN  IF Len(ps) > 0 THEN ps[Len(ps)] ELSE <<>>

extractParagraphs(p) ==
    SelectSeq(MapSeq(p, cleanText), LAMBDA t : Utf16Length(t) > 0)

extractImages(img) ==
    SelectSeq([i \in 1..Len(img) |-> [src |-> cleanText(img[i].src), alt |-> cleanText(img[i].alt)]],
              LAMBDA im : Utf16Length(im.src) > 0)

RECURSIVE Sum(_)
Sum(ns) == IF Len(ns) = 0 THEN 0 ELSE Head(ns) + Sum(Tail(ns))

\* Math.round(total / n) for non-negative integers: halves round up.
RoundDiv(total, n) == (2 * total + n) \div (2 * n)

\* Faulty variant: a paragraph of exactly 120 words already counts as long.
Extract_longFrom120(pg) ==
    LET paragraphs == extractParagraphs(pg.p)
        images == extractImages(pg.img)
        paragraphWordCounts == MapSeq(paragraphs, wordsCount)
    IN  [title |-> cleanText(pg.title),
         meta_description |-> cleanText(pg.metaContent),
         h1s |-> MapSeq(pg.h1, cleanText),
         h2s |-> MapSeq(pg.h2, cleanText),
         intro |-> extractFirstParagraph(pg.p),
         conclusion |-> extractLastParagraph(pg.p),
         images_count |-> Len(images),
         images_missing_alt_count |-> Len(SelectSeq(images, LAMBDA im : im.alt = <<>>)),
         avg_words_per_paragraph |->
             IF Len(paragraphWordCounts) > 0
             THEN RoundDiv(Sum(paragraphWordCounts), Len(paragraphWordCounts))
             ELSE 0,
         long_paragraphs_count |-> Len(SelectSeq(paragraphWordCounts, LAMBDA n : n >= 120))]

Extract(pg) ==
    LET paragraphs == extractParagraphs(pg.p)
        images == extractImages(pg.img)
        paragraphWordCounts == MapSeq(paragraphs, wordsCount)
    IN  [title |-> cleanText(pg.title),
         meta_description |-> cleanText(pg.metaContent),
         h1s |-> MapSeq(pg.h1, cleanText),
         h2s |-> MapSeq(pg.h2, cleanText),
         intro |-> extractFirstParagraph(pg.p),
         conclusion |-> extractLastParagraph(pg.p),
         images_count |-> Len(images),
         images_missing_alt_count |-> Len(SelectSeq(images, LAMBDA im : im.alt = <<>>)),
         avg_words_per_paragraph |->
             IF Len(paragraphWordCounts) > 0
             THEN RoundDiv(Sum(paragraphWordCounts), Len(paragraphWordCounts))
             ELSE 0,
         long_paragraphs_count |-> Len(SelectSeq(paragraphWordCounts, LAMBDA n : n > 120))]

(***************************************************************************)
(* The eight checks                                                        *)
(***************************************************************************)
titleCheck(ex) ==
    LET titleLen == charCount(ex.title)
        titleStatus == IF titleLen > 0
                       THEN (IF titleLen >= 45 /\ titleLen <= 60 THEN "green" ELSE "orange")
                       ELSE "red"
    IN  [id |-> "title", status |-> titleStatus,
         data |-> [length |-> titleLen, value |-> ex.title]]

\* Faulty variant: green from 140 characters on, as in the revision at
\* lines 966-972.
metaCheck_from140(ex) ==
    LET metaLen == charCount(ex.meta_description)
        metaStatus == IF metaLen > 0
                      THEN (IF metaLen >= 140 /\ metaLen <= 160 THEN "green" ELSE "orange")
                      ELSE "red"
    IN  [id |-> "meta_description", status |-> metaStatus,
         data |-> [length |-> metaLen, value |-> ex.meta_description]]

metaCheck(ex) ==
    LET metaLen == charCount(ex.meta_description)
        metaStatus ==
            IF metaLen > 0
            THEN (IF metaLen >= 120 /\ metaLen <= 160 THEN "green"
                  ELSE IF (metaLen >= 70 /\ metaLen <= 119) \/ (metaLen >= 161 /\ metaLen <= 200)
                       THEN "orange"
                       ELSE "orange")
            ELSE "red"
    IN  [id |-> "meta_description", status |-> metaStatus,
         data |-> [length |-> metaLen, value |-> ex.meta_description]]

h1Check(ex, kw) ==
    LET h1s == ex.h1s
        h1Status == IF Len(h1s) = 1
                    THEN (IF containsKeywordExact(h1s[1], kw) THEN "green" ELSE "orange")
                    ELSE "red"
    IN  [id |-> "h1", status |-> h1Status,
         data |-> [count |-> Len(h1s), values |-> h1s]]

\* Faulty variant: the H1 counts as a fourth location and two satisfied
\* locations are enough for orange, as in the revision at lines 1005-1037.
keywordStructureCheck_withH1(ex, kw) ==
    LET okH1 == IF Len(ex.h1s) > 0 THEN containsKeywordExact(JoinSpace(ex.h1s), kw) ELSE FALSE
        okIntro == IF ex.intro # <<>> THEN containsKeywordExact(ex.intro, kw) ELSE FALSE
        okH2 == IF Len(ex.h2s) > 0
                THEN \E i \in 1..Len(ex.h2s) : containsKeywordExact(ex.h2s[i], kw)
                ELSE FALSE
        okConc == IF ex.conclusion # <<>> THEN containsKeywordExact(ex.conclusion, kw) ELSE FALSE
        missing == (IF ~okH1 THEN <<"H1">> ELSE <<>>)
                   \o (IF ~okIntro THEN <<"intro">> ELSE <<>>)
                   \o (IF ~okH2 THEN <<"H2">> ELSE <<>>)
                   \o (IF ~okConc THEN <<"conclusion">> ELSE <<>>)
        okCount == Len(SelectSeq(<<okH1, okIntro, okH2, okConc>>, LAMBDA b : b))
        ksStatus == IF okCount = 4 THEN "green"
                    ELSE IF okCount >= 2 THEN "orange"
                    ELSE "red"
    IN  [id |-> "keyword_exact_structure", status |-> ksStatus,
         data |-> [ok_intro |-> okIntro, ok_h2 |-> okH2,
                   ok_conclusion |-> okConc, missing |-> missing]]

keywordStructureCheck(ex, kw) ==
    LET intro == ex.intro
        conclusion == ex.conclusion
        h2s == ex.h2s
        okIntroExact == IF intro # <<>> THEN containsKeywordExact(intro, kw) ELSE FALSE
        okH2Exact == IF Len(h2s) > 0
                     THEN \E i \in 1..Len(h2s) : containsKeywordExact(h2s[i], kw)
                     ELSE FALSE
        okConcExact == IF conclusion # <<>> THEN containsKeywordExact(conclusion, kw) ELSE FALSE
        missingExact == (IF ~okIntroExact THEN <<"intro">> ELSE <<>>)
                        \o (IF ~okH2Exact THEN <<"H2">> ELSE <<>>)
                        \o (IF ~okConcExact THEN <<"conclusion">> ELSE <<>>)
        exactCount == Len(SelectSeq(<<okIntroExact, okH2Exact, okConcExact>>, LAMBDA b : b))
        exactStatus == IF exactCount = 3 THEN "green"
                       ELSE IF exactCount = 2 THEN "orange"
                       ELSE "red"
    IN  [id |-> "keyword_exact_structure", status |-> exactStatus,
         data |-> [ok_intro |-> okIntroExact, ok_h2 |-> okH2Exact,
                   ok_conclusion |-> okConcExact, missing |-> missingExact]]

structureCheck(ex) ==
    LET h2Count == Len(ex.h2s)
        structureStatus == IF h2Count >= 2 THEN "green"
                           ELSE IF h2Count = 1 THEN "orange"
                           ELSE "red"
    IN  [id |-> "structure", status |-> structureStatus,
         data |-> [h2_count |-> h2Count]]

imagesCheck(ex) ==
    LET imgCount == ex.images_count
        missingAlt == ex.images_missing_alt_count
        imgStatus == IF imgCount > 0
                     THEN (IF missingAlt > 0 THEN "orange" ELSE "green")
                     ELSE "red"
    IN  [id |-> "images_alt", status |-> imgStatus,
         data |-> [images_count |-> imgCount, images_missing_alt_count |-> missingAlt]]

\* Faulty variant: red is the default, as in the other checks.
readabilityCheck_redByDefault(ex) ==
    LET longP == ex.long_paragraphs_count
        readStatus == IF longP >= 1 /\ longP < 3 THEN "orange" ELSE "red"
    IN  [id |-> "readability", status |-> readStatus,
         data |-> [avg_words_per_paragraph |-> ex.avg_words_per_paragraph,
                   long_paragraphs_count |-> longP]]

readabilityCheck(ex) ==
    LET longP == ex.long_paragraphs_count
        readStatus == IF longP >= 3 THEN "red"
                      ELSE IF longP >= 1 THEN "orange"
                      ELSE "green"
    IN  [id |-> "readability", status |-> readStatus,
         data |-> [avg_words_per_paragraph |-> ex.avg_words_per_paragraph,
                   long_paragraphs_count |-> longP]]

generic ==
    << <<"g","o","o","g","l","e">>,
       <<"r","e","f","e","r","e","n","c","e","m","e","n","t">>,
       <<"s","e","o">>,
       <<"s","i","t","e">>,
       <<"p","a","g","e">>,
       <<"c","o","n","t","e","n","u">>,
       <<"v","i","s","i","b","i","l","i","t","e">> >>

\* Array.from(new Set(l)): first occurrences, in order.
Dedup(l) == SelectSeq(Indices(l), LAMBDA i : \A j \in 1..(i - 1) : l[j] # l[i])

\* Faulty variant: the keyword's words are appended to the vocabulary without
\* removing the duplicates.
lexicalCheck_noDedup(ex, kw) ==
    LET kwParts == SelectSeq(MapSeq(SplitSpace(normalizeForMatch(kw)), Trim),
                             LAMBDA w : Utf16Length(w) >= 4)
        expected == generic \o kwParts
        bodyText == normalizeForMatch(
                        ex.title \o <<" ">> \o ex.meta_description \o <<" ">>
                        \o JoinSpace(ex.h1s) \o <<" ">> \o JoinSpace(ex.h2s) \o <<" ">>
                        \o ex.intro \o <<" ">> \o ex.conclusion)
        found == SelectSeq(expected, LAMBDA term : Includes(bodyText, term))
        lexStatus == IF Len(found) >= 4 THEN "green"
                     ELSE IF Len(found) >= 2 THEN "orange"
                     ELSE "red"
    IN  [id |-> "lexical", status |-> lexStatus,
         data |-> [found |-> found, expected |-> expected, found_count |-> Len(found)]]

lexicalCheck(ex, kw) ==
    LET kwParts == SelectSeq(MapSeq(SplitSpace(normalizeForMatch(kw)), Trim),
                             LAMBDA w : Utf16Length(w) >= 4)
        all == generic \o kwParts
        expected == MapSeq(Dedup(all), LAMBDA i : all[i])
        bodyText == normalizeForMatch(
                        ex.title \o <<" ">> \o ex.meta_description \o <<" ">>
                        \o JoinSpace(ex.h1s) \o <<" ">> \o JoinSpace(ex.h2s) \o <<" ">>
                        \o ex.intro \o <<" ">> \o ex.conclusion)
        found == SelectSeq(expected, LAMBDA term : Includes(bodyText, term))
        lexStatus == IF Len(found) >= 4 THEN "green"
                     ELSE IF Len(found) >= 2 THEN "orange"
                     ELSE "red"
    IN  [id |-> "lexical", status |-> lexStatus,
         data |-> [found |-> found, expected |-> expected, found_count |-> Len(found)]]

\* Faulty variant: the structure result is pushed before the keyword one.
computeChecks_reordered(ex, kw) ==
    << titleCheck(ex), metaCheck(ex), h1Check(ex, kw), structureCheck(ex),
       keywordStructureCheck(ex, kw), imagesCheck(ex), readabilityCheck(ex), lexicalCheck(ex, kw) >>

computeChecks(ex, kw) ==
    << titleCheck(ex), metaCheck(ex), h1Check(ex, kw), keywordStructureCheck(ex, kw),
       structureCheck(ex), imagesCheck(ex), readabilityCheck(ex), lexicalCheck(ex, kw) >>

(***************************************************************************)
(* Status aggregation                                                      *)
(***************************************************************************)
\* Faulty variant: the set of the revision at lines 718-729, whose fourth id
\* is not the one this revision's computeChecks emits.
structurants_renamed == {"title", "h1", "keyword_structure"}

structurants == {"title", "h1", "keyword_exact_structure"}

\* Faulty variant: the first red result of the list decides alone.
statusGlobal_firstRedDecides(cs) ==
    LET reds == SelectSeq(Indices(cs), LAMBDA i : cs[i].status = "red")
    IN  IF Len(reds) > 0
        THEN (IF cs[reds[1]].id \in structurants THEN "red" ELSE "orange")
        ELSE IF \E i \in 1..Len(cs) : cs[i].status = "orange" THEN "orange"
        ELSE "green"

\* Faulty variant: any red result makes the overall status red.
statusGlobal_anyRedIsRed(cs) ==
    IF \E i \in 1..Len(cs) : cs[i].status = "red" THEN "red"
    ELSE IF \E i \in 1..Len(cs) : cs[i].status = "orange" THEN "orange"
    ELSE "green"

\* Faulty variant: orange results are not looked at.
statusGlobal_orangeIgnored(cs) ==
    IF \E i \in 1..Len(cs) : cs[i].status = "red" /\ cs[i].id \in structurants THEN "red"
    ELSE IF \E i \in 1..Len(cs) : cs[i].status = "red" THEN "orange"
    ELSE "green"

statusGlobalFromChecks(cs) ==
    LET hasRedStructurant ==
            \E i \in 1..Len(cs) : cs[i].status = "red" /\ cs[i].id \in structurants
        hasRed == \E i \in 1..Len(cs) : cs[i].status = "red"
        hasOrange == \E i \in 1..Len(cs) : cs[i].status = "orange"
    IN  IF hasRedStructurant THEN "red"
        ELSE IF hasRed THEN "orange"
        ELSE IF hasOrange THEN "orange"
        ELSE "green"

(***************************************************************************)
(* Bounds and inputs                                                       *)
(***************************************************************************)
MaxTitleLength == 61
MaxMetaLength == 201
MaxHeadings == 2
MaxParagraphs == 2
MaxLongParagraphs == 3
MaxImages == 2

\* All sequences of at most n elements of S.
SeqsUpTo(S, n) == UNION {[1..k -> S] : k \in 0..n}

W_coaching == <<"c","o","a","c","h","i","n","g">>
W_seo == <<"s","e","o">>

\* The keywords of the requests: a two-word phrase, the same words in the
\* other order, an upper-case and an accented spelling of "seo", a keyword
\* made of punctuation only, and the missing keyword.
KW_phrase == W_coaching \o <<" ">> \o W_seo
KW_reversed == W_seo \o <<" ">> \o W_coaching
KW_upper == <<"S","E","O">>
KW_accent == <<"s","e_acute","o">>
KW_symbols == <<"!","!">>

Keywords == {KW_phrase, KW_reversed, KW_upper, KW_accent, KW_symbols, <<>>}

\* Heading texts: "Coaching SEO", "site page", and an element holding only
\* whitespace.
H_kw == W_coaching \o <<" ","S","E","O">>
H_site == <<"s","i","t","e"," ","p","a","g","e">>
H_blank == <<" ">>

\* Paragraph texts: the phrase followed by filler (43 code points), filler
\* alone (40), the two words apart and in the other order (41), the bare
\* phrase (12, too short for an intro) and 20 astral code points (40 UTF-16
\* units).
P_kw == KW_phrase \o <<" ">> \o Rep("x", 30)
P_plain == Rep("x", 40)
P_tokens == W_seo \o <<" ">> \o Rep("x", 28) \o <<" ">> \o W_coaching
P_short == KW_phrase
P_astral == Rep("emoji", 20)

\* A paragraph of n one-letter words.
P_words(n) == [i \in 1..(2 * n - 1) |-> IF i % 2 = 1 THEN "w" ELSE " "]

Img_alt == [src |-> <<"a">>, alt |-> <<"x">>]
Img_noalt == [src |-> <<"a">>, alt |-> <<" ">>]
Img_nosrc == [src |-> <<>>, alt |-> <<"x">>]

Titles ==
    {Rep("a", n) : n \in 0..MaxTitleLength}
    \cup {Rep("emoji", n) : n \in 1..MaxTitleLength}
    \cup {<<" ">> \o Rep("a", n) \o <<" ", "\t", "a", "\n">> : n \in 0..MaxTitleLength}

Metas ==
    {Rep("a", n) : n \in 0..MaxMetaLength}
    \cup {Rep("emoji", n) : n \in 1..MaxMetaLength}

H1Lists == SeqsUpTo({H_kw, H_site, H_blank}, MaxHeadings)
H2Lists == SeqsUpTo({H_kw, H_site}, MaxHeadings)
ParagraphLists ==
    SeqsUpTo({P_kw, P_plain, P_tokens}, MaxParagraphs)
    \cup {<<P_short>>, <<P_short, P_plain>>, <<P_plain, P_short>>, <<P_astral>>, <<P_kw, P_astral>>}
    \cup {[i \in 1..k |-> P_words(121)] : k \in 1..MaxLongParagraphs}
    \cup {<<P_words(120)>>, <<P_words(1), P_words(2)>>}
ImageLists == SeqsUpTo({Img_alt, Img_noalt, Img_nosrc}, MaxImages)

\* The page on which nothing is found, and a page every check accepts for
\* the keyword "coaching seo".
EmptyPage ==
    [title |-> <<>>, metaContent |-> <<>>, h1 |-> <<>>, h2 |-> <<>>, p |-> <<>>, img |-> <<>>]

GoodPage ==
    [title |-> KW_phrase \o <<" ">> \o Rep("a", 37),
     metaContent |-> Rep("a", 150),
     h1 |-> <<H_kw>>,
     h2 |-> <<H_kw, H_site>>,
     p |-> <<P_kw>>,
     img |-> <<Img_alt>>]

\* Each base page with one part replaced by every value of that part; the
\* paragraphs vary both without H2 and under an H2 holding the keyword.
Pages ==
    UNION {
        {[b EXCEPT !.title = t] : t \in Titles}
        \cup {[b EXCEPT !.metaContent = m] : m \in Metas}
        \cup {[b EXCEPT !.h1 = h] : h \in H1Lists}
        \cup {[b EXCEPT !.h2 = h] : h \in H2Lists}
        \cup {[b EXCEPT !.h2 = h, !.p = ps] : h \in {<<>>, <<H_kw>>}, ps \in ParagraphLists}
        \cup {[b EXCEPT !.img = im] : im \in ImageLists}
        : b \in {EmptyPage, GoodPage} }

\* Further requests, audited on a smaller set of pages: a one-word keyword of
\* nine letters, one of two letters, and one whose two words both belong to
\* the generic vocabulary of the lexical check.
W_marketing == <<"m","a","r","k","e","t","i","n","g">>
W_marketin == <<"m","a","r","k","e","t","i","n">>

KW_marketing == W_marketing
KW_short == <<"s","e">>
KW_site == H_site

ExtraKeywords == {KW_marketing, KW_short, KW_site}

\* Texts one character away from a keyword: "marketin page" and
\* "visibilite sao" as headings, and the same followed by filler as
\* paragraphs of 40 code points.
H_marketin == W_marketin \o <<" ","p","a","g","e">>
H_marketing == W_marketing
H_sao == <<"v","i","s","i","b","i","l","i","t","e"," ","s","a","o">>
P_marketin == W_marketin \o <<" ">> \o Rep("x", 31)
P_marketing == W_marketing \o <<" ">> \o Rep("x", 30)
P_sao == H_sao \o <<" ">> \o Rep("x", 25)

\* A paragraph of two words with whitespace runs around and between them.
P_spaced == <<" ", "\t", "w", " ", "\n", " ", "w", " ">>

ExtraH1Lists == {<<H_marketin>>, <<H_marketing>>, <<H_sao>>}
ExtraH2Lists ==
    {<<H_marketin>>, <<H_marketing, H_site>>, <<H_sao>>, <<H_blank>>, <<H_kw, H_blank>>}
ExtraParagraphLists ==
    {<<P_marketin>>, <<P_marketing>>, <<P_sao>>, <<H_blank, P_spaced>>, <<P_astral, P_plain>>}

ExtraPages ==
    UNION {
        {b}
        \cup {[b EXCEPT !.h1 = h] : h \in ExtraH1Lists}
        \cup {[b EXCEPT !.h2 = h, !.p = ps] : h \in ExtraH2Lists, ps \in ExtraParagraphLists}
        : b \in {EmptyPage, GoodPage} }

\* The pages a request for keyword k is answered with.
AllPages == Pages \cup ExtraPages

PagesFor(k) == IF k \in ExtraKeywords THEN ExtraPages ELSE AllPages

\* new URL(value).protocol, or "TypeError" when the constructor throws.
Urls == {"", "not a url", "ftp://host/page", "http://host/page", "https://host/page"}

URLProtocol(value) ==
    CASE value = "http://host/page" -> "http:"
      [] value = "https://host/page" -> "https:"
      [] value = "ftp://host/page" -> "ftp:"
      [] OTHER -> "TypeError"

\* Faulty variant: every URL the constructor accepts is valid, whatever its
\* protocol.
isValidHttpUrl_anyProtocol(value) ==
    LET protocol == URLProtocol(value)
    IN  IF protocol = "TypeError" THEN FALSE ELSE TRUE

isValidHttpUrl(value) ==
    LET protocol == URLProtocol(value)
    IN  IF protocol = "TypeError" THEN FALSE
        ELSE protocol = "http:" \/ protocol = "https:"

\* What the network exchange of fetchHtml comes to: the 12 s timer aborts the
\* request, the request fails otherwise, or a response arrives with a status
\* and a content-type header ("" when it has none) and its body is read or
\* the timer aborts the reading.  Before the call the exchange is not
\* started, during the await it is pending.
NotStarted == [kind |-> "not_started", status |-> 0, contentType |-> "", body |-> ""]
Pending == [kind |-> "pending", status |-> 0, contentType |-> "", body |-> ""]

ResponseStatuses == {200, 404, 500}
ContentTypes == {"text/html; charset=utf-8", "application/pdf", ""}

FetchOutcomes ==
    {[kind |-> "aborted", status |-> 0, contentType |-> "", body |-> ""],
     [kind |-> "network_error", status |-> 0, contentType |-> "", body |-> ""]}
    \cup {[kind |-> "response", status |-> st, contentType |-> ct, body |-> "read"] :
             st \in ResponseStatuses, ct \in ContentTypes}
    \cup {[kind |-> "response", status |-> 200, contentType |-> "text/html; charset=utf-8",
           body |-> "aborted"]}

\* Response.ok
RespOk(status) == status >= 200 /\ status <= 299

\* contentType.includes("text/html")
IsHtml(contentType) == contentType = "text/html; charset=utf-8"

\* `FETCH_HTTP_${status}`
HttpErrorMessage(status) ==
    CASE status = 404 -> "FETCH_HTTP_404"
      [] status = 500 -> "FETCH_HTTP_500"

\* fetchHtml on an exchange that came to out: the message of the error it
\* throws, or a return.
fetchHtml(out) ==
    IF out.kind = "aborted" THEN [threw |-> TRUE, message |-> "This operation was aborted"]
    ELSE IF out.kind = "network_error" THEN [threw |-> TRUE, message |-> "fetch failed"]
    ELSE IF ~RespOk(out.status) THEN [threw |-> TRUE, message |-> HttpErrorMessage(out.status)]
    ELSE IF ~IsHtml(out.contentType) THEN [threw |-> TRUE, message |-> "FETCH_NOT_HTML"]
    ELSE IF out.body = "aborted" THEN [threw |-> TRUE, message |-> "This operation was aborted"]
    ELSE [threw |-> FALSE, message |-> ""]

\* The exchanges on which fetchHtml throws, and those on which it returns.
ThrowingOutcomes == {out \in FetchOutcomes : fetchHtml(out).threw}
ReturningOutcomes == FetchOutcomes \ ThrowingOutcomes

\* The catch block of the handler.
errorResponse(msg) ==
    IF msg = "FETCH_NOT_HTML" THEN [status |-> 422, code |-> "NOT_HTML"]
    ELSE IF msg \in {"FETCH_HTTP_404", "FETCH_HTTP_500"} THEN [status |-> 502, code |-> "FETCH_FAILED"]
    ELSE IF msg = "This operation was aborted" THEN [status |-> 504, code |-> "TIMEOUT"]
    ELSE [status |-> 502, code |-> "UNKNOWN"]

(***************************************************************************)
(* POST /api/audit                                                         *)
(***************************************************************************)
NoExtract == Extract(EmptyPage)

Init ==
    /\ pc = "idle"
    /\ url = ""
    /\ keyword = <<>>
    /\ fetched = NotStarted
    /\ page = EmptyPage
    /\ extracted = NoExtract
    /\ checks = <<>>
    /\ status_global = ""
    /\ httpStatus = 0
    /\ errorCode = ""
    /\ responses = 0
    /\ inflight = <<>>

\* !url || !keyword
RejectInvalidInput(u, k) ==
    /\ pc = "idle"
    /\ u = "" \/ k = <<>>
    /\ url' = u
    /\ keyword' = k
    /\ httpStatus' = 400
    /\ errorCode' = "INVALID_INPUT"
    /\ responses' = responses + 1
    /\ pc' = "responded"
    /\ UNCHANGED <<fetched, page, extracted, checks, status_global, inflight>>

RejectInvalidUrl(u, k) ==
    /\ pc = "idle"
    /\ ~(u = "" \/ k = <<>>)
    /\ ~isValidHttpUrl(u)
    /\ url' = u
    /\ keyword' = k
    /\ httpStatus' = 400
    /\ errorCode' = "INVALID_URL"
    /\ responses' = responses + 1
    /\ pc' = "responded"
    /\ UNCHANGED <<fetched, page, extracted, checks, status_global, inflight>>

\* The handler up to its await of fetchHtml(url).
StartFetch(u, k) ==
    /\ pc = "idle"
    /\ ~(u = "" \/ k = <<>>)
    /\ isValidHttpUrl(u)
    /\ url' = u
    /\ keyword' = k
    /\ fetched' = Pending
    /\ pc' = "fetching"
    /\ UNCHANGED <<page, extracted, checks, status_global, httpStatus, errorCode, responses, inflight>>

\* fetchHtml throws: the catch block answers.
FetchThrows(out) ==
    /\ pc = "fetching"
    /\ fetchHtml(out).threw
    /\ fetched' = out
    /\ httpStatus' = errorResponse(fetchHtml(out).message).status
    /\ errorCode' = errorResponse(fetchHtml(out).message).code
    /\ responses' = responses + 1
    /\ pc' = "responded"
    /\ UNCHANGED <<url, keyword, page, extracted, checks, status_global, inflight>>

\* fetchHtml returns the HTML of pg: extraction, scoring, aggregation and
\* the 200 response run without another await.
FetchReturns(out, pg) ==
    /\ pc = "fetching"
    /\ ~fetchHtml(out).threw
    /\ fetched' = out
    /\ page' = pg
    /\ extracted' = Extract(pg)
    /\ checks' = computeChecks(extracted', keyword)
    /\ status_global' = statusGlobalFromChecks(checks')
    /\ httpStatus' = 200
    /\ responses' = responses + 1
    /\ pc' = "responded"
    /\ UNCHANGED <<url, keyword, errorCode, inflight>>

Next ==
    \/ \E u \in Urls, k \in Keywords \cup ExtraKeywords : RejectInvalidInput(u, k)
    \/ \E u \in Urls, k \in Keywords \cup ExtraKeywords : RejectInvalidUrl(u, k)
    \/ \E u \in Urls, k \in Keywords \cup ExtraKeywords : StartFetch(u, k)
    \/ \E out \in ThrowingOutcomes : FetchThrows(out)
    \/ \E out \in ReturningOutcomes : \E pg \in PagesFor(keyword) : FetchReturns(out, pg)

Spec == Init /\ [][Next]_vars

\* The same handler with its scheduling, on the smaller set of pages: it runs
\* once the request is received, and the exchange of fetchHtml always comes
\* to an end, since the 12 s timer aborts it at the latest.
NextLive ==
    \/ \E u \in Urls, k \in Keywords \cup ExtraKeywords : RejectInvalidInput(u, k)
    \/ \E u \in Urls, k \in Keywords \cup ExtraKeywords : RejectInvalidUrl(u, k)
    \/ \E u \in Urls, k \in Keywords \cup ExtraKeywords : StartFetch(u, k)
    \/ \E out \in ThrowingOutcomes : FetchThrows(out)
    \/ \E out \in ReturningOutcomes : \E pg \in ExtraPages : FetchReturns(out, pg)

SpecLive == Init /\ [][NextLive]_vars /\ WF_vars(NextLive)

(***************************************************************************)
(* Several requests in flight.  Node runs one handler at a time up to its  *)
(* next await, so the handlers of different requests interleave at         *)
(* await fetchHtml(url).  inflight holds one record per request received,  *)
(* in the order of arrival: the handler's local bindings (url, keyword),   *)
(* what it fetched and what it answered; served is the rank of its         *)
(* response among the responses sent.                                      *)
(***************************************************************************)
MaxRequests == 2

ConcUrls == {"", "https://host/page"}
ConcKeywords == {KW_phrase, KW_symbols}
ConcPages == {[EmptyPage EXCEPT !.h1 = <<H_kw>>], [EmptyPage EXCEPT !.h1 = <<H_site>>]}
ConcThrowingOutcomes ==
    {out \in ThrowingOutcomes : out.kind = "aborted" \/ (out.status = 404 /\ out.contentType = "")}

\* Faulty variant: the keyword is kept in a variable of the module, which the
\* handler of the request received last has overwritten.
HandlerKeyword_moduleLevel(r) == inflight[Len(inflight)].keyword

\* const { url, keyword } = req.body: a binding of the handler's own call.
HandlerKeyword(r) == inflight[r].keyword

ResponsesSent == Len(SelectSeq(inflight, LAMBDA q : q.pc = "responded"))

InitConc ==
    /\ pc = "serving"
    /\ inflight = <<>>
    /\ url = ""
    /\ keyword = <<>>
    /\ fetched = NotStarted
    /\ page = EmptyPage
    /\ extracted = NoExtract
    /\ checks = <<>>
    /\ status_global = ""
    /\ httpStatus = 0
    /\ errorCode = ""
    /\ responses = 0

\* A request arrives and its handler returns a 400.
ConcReject(u, k) ==
    /\ pc = "serving"
    /\ Len(inflight) < MaxRequests
    /\ u = "" \/ k = <<>> \/ ~isValidHttpUrl(u)
    /\ inflight' = Append(inflight,
           [pc |-> "responded", url |-> u, keyword |-> k, page |-> EmptyPage,
            checks |-> <<>>, status_global |-> "", httpStatus |-> 400,
            served |-> ResponsesSent + 1])
    /\ UNCHANGED <<pc, url, keyword, fetched, page, extracted, checks, status_global,
                   httpStatus, errorCode, responses>>

\* A request arrives and its handler runs up to its await of fetchHtml(url).
ConcStartFetch(u, k) ==
    /\ pc = "serving"
    /\ Len(inflight) < MaxRequests
    /\ ~(u = "" \/ k = <<>>)
    /\ isValidHttpUrl(u)
    /\ inflight' = Append(inflight,
           [pc |-> "fetching", url |-> u, keyword |-> k, page |-> EmptyPage,
            checks |-> <<>>, status_global |-> "", httpStatus |-> 0, served |-> 0])
    /\ UNCHANGED <<pc, url, keyword, fetched, page, extracted, checks, status_global,
                   httpStatus, errorCode, responses>>

\* The fetchHtml of request r throws: its catch block answers.
ConcFetchThrows(r, out) ==
    /\ pc = "serving"
    /\ inflight[r].pc = "fetching"
    /\ fetchHtml(out).threw
    /\ inflight' = [inflight EXCEPT
           ![r].pc = "responded",
           ![r].httpStatus = errorResponse(fetchHtml(out).message).status,
           ![r].served = ResponsesSent + 1]
    /\ UNCHANGED <<pc, url, keyword, fetched, page, extracted, checks, status_global,
                   httpStatus, errorCode, responses>>

\* The fetchHtml of request r returns the HTML of pg: the rest of its handler
\* runs without another await.
ConcFetchReturns(r, out, pg) ==
    /\ pc = "serving"
    /\ inflight[r].pc = "fetching"
    /\ ~fetchHtml(out).threw
    /\ LET cs == computeChecks(Extract(pg), HandlerKeyword(r))
       IN  inflight' = [inflight EXCEPT
               ![r].pc = "responded",
               ![r].page = pg,
               ![r].checks = cs,
               ![r].status_global = statusGlobalFromChecks(cs),
               ![r].httpStatus = 200,
               ![r].served = ResponsesSent + 1]
    /\ UNCHANGED <<pc, url, keyword, fetched, page, extracted, checks, status_global,
                   httpStatus, errorCode, responses>>

NextConc ==
    \/ \E u \in ConcUrls, k \in ConcKeywords : ConcReject(u, k)
    \/ \E u \in ConcUrls, k \in ConcKeywords : ConcStartFetch(u, k)
    \/ \E r \in 1..Len(inflight), out \in ConcThrowingOutcomes : ConcFetchThrows(r, out)
    \/ \E r \in 1..Len(inflight), out \in ReturningOutcomes :
           \E pg \in ConcPages : ConcFetchReturns(r, out, pg)

SpecConc == InitConc /\ [][NextConc]_vars

(***************************************************************************)
(* statusGlobalFromChecks on its own: every list of eight results carrying *)
(* the ids computeChecks emits, in its order, with any statuses.           *)
(***************************************************************************)
Statuses == {"green", "orange", "red"}

CheckIds == [i \in 1..8 |-> computeChecks(NoExtract, <<>>)[i].id]

CheckLists == {[i \in 1..8 |-> [id |-> CheckIds[i], status |-> st[i]]] : st \in [1..8 -> Statuses]}

InitAgg ==
    /\ pc = "aggregating"
    /\ checks \in CheckLists
    /\ url = ""
    /\ keyword = <<>>
    /\ fetched = NotStarted
    /\ page = EmptyPage
    /\ extracted = NoExtract
    /\ status_global = ""
    /\ httpStatus = 0
    /\ errorCode = ""
    /\ responses = 0
    /\ inflight = <<>>

Aggregate ==
    /\ pc = "aggregating"
    /\ status_global' = statusGlobalFromChecks(checks)
    /\ pc' = "aggregated"
    /\ UNCHANGED <<url, keyword, fetched, page, extracted, checks, httpStatus, errorCode, responses,
                   inflight>>

NextAgg == Aggregate

SpecAgg == InitAgg /\ [][NextAgg]_vars

(***************************************************************************)
(* Properties                                                              *)
(***************************************************************************)
\* The positions of the results in the list computeChecks returns.
TitlePos == 1
MetaPos == 2
H1Pos == 3
KeywordStructurePos == 4
StructurePos == 5
ImagesPos == 6
ReadabilityPos == 7
LexicalPos == 8

StructurantPositions == {TitlePos, H1Pos, KeywordStructurePos}

StatusAt(i) == checks[i].status

\* C1: whenever the title, the h1 or the keyword-structure result is red,
\* the overall status is red, whatever the other five statuses are.
C1_StructurantRedGivesRed ==
    pc = "aggregated" =>
        ((\E i \in StructurantPositions : StatusAt(i) = "red") => status_global = "red")

\* C1 happens: only the keyword-structure result is red, the rest is green,
\* and the overall status is red.
C1_Witness ==
    /\ pc = "aggregated"
    /\ StatusAt(KeywordStructurePos) = "red"
    /\ \A i \in (1..8) \ {KeywordStructurePos} : StatusAt(i) = "green"
    /\ status_global = "red"

\* C2: with no structurant result red and some other result red, the overall
\* status is orange (and so not red).
C2_OtherRedGivesOrange ==
    pc = "aggregated" =>
        (( /\ \A i \in StructurantPositions : StatusAt(i) # "red"
           /\ \E i \in (1..8) \ StructurantPositions : StatusAt(i) = "red" )
         => status_global = "orange")

\* C2 happens: images_alt alone is red, the rest is green, overall orange.
C2_Witness ==
    /\ pc = "aggregated"
    /\ StatusAt(ImagesPos) = "red"
    /\ \A i \in (1..8) \ {ImagesPos} : StatusAt(i) = "green"
    /\ status_global = "orange"

\* C3: the overall status is green exactly when all eight results are green,
\* and orange when no result is red and at least one is orange.
C3_GreenIffAllGreen ==
    pc = "aggregated" =>
        /\ (status_global = "green" <=> \A i \in 1..8 : StatusAt(i) = "green")
        /\ ( ( /\ \A i \in 1..8 : StatusAt(i) # "red"
               /\ \E i \in 1..8 : StatusAt(i) = "orange" )
             => status_global = "orange" )

\* C3 happens: one result is orange, none is red, and the overall status is
\* orange.
C3_Witness ==
    /\ pc = "aggregated"
    /\ Cardinality({i \in 1..8 : StatusAt(i) = "orange"}) = 1
    /\ \A i \in 1..8 : StatusAt(i) # "red"
    /\ status_global = "orange"

\* The handler answered 200 with the audit of the fetched page.
Audited == pc = "responded" /\ httpStatus = 200

IdAt(i) == checks[i].id

\* C4 as stated: on a page where nothing is found, all eight results are red
\* and the overall status is red.
C4_AllRedOnEmptyPage ==
    (Audited /\ extracted = NoExtract) =>
        /\ \A i \in 1..8 : StatusAt(i) = "red"
        /\ status_global = "red"

\* C4, amended: on a page where nothing is found the audit is complete (eight
\* results), every result but readability is red, readability is green
\* (no paragraph is long), and the overall status is red.
C4_EmptyPageResults ==
    (Audited /\ extracted = NoExtract) =>
        /\ Len(checks) = 8
        /\ \A i \in (1..8) \ {ReadabilityPos} : StatusAt(i) = "red"
        /\ StatusAt(ReadabilityPos) = "green"
        /\ status_global = "red"

\* C4 happens: the empty page was audited, for a keyword of punctuation only.
C4_Witness ==
    /\ Audited
    /\ page = EmptyPage
    /\ keyword = KW_symbols
    /\ StatusAt(ReadabilityPos) = "green"

RealLength(raw) == Len(cleanText(raw))

\* C6: the title result is red exactly when the title is empty, green exactly
\* when it counts 45 to 60 code points, orange for every other title.
C6_TitleStatus ==
    Audited =>
        LET n == RealLength(page.title)
        IN  /\ StatusAt(TitlePos) = "red" <=> n = 0
            /\ StatusAt(TitlePos) = "green" <=> (n >= 45 /\ n <= 60)
            /\ StatusAt(TitlePos) = "orange" <=> (n > 0 /\ ~(n >= 45 /\ n <= 60))

\* C6 happens: a title of 45 astral code points (90 UTF-16 units) is green.
C6_Witness ==
    /\ Audited
    /\ page.title = Rep("emoji", 45)
    /\ StatusAt(TitlePos) = "green"

\* C7: the meta_description result is green exactly for a length of 120 to
\* 160, red exactly for the empty description, orange for every other length.
C7_MetaStatus ==
    Audited =>
        LET n == RealLength(page.metaContent)
        IN  /\ StatusAt(MetaPos) = "green" <=> (n >= 120 /\ n <= 160)
            /\ StatusAt(MetaPos) = "red" <=> n = 0
            /\ StatusAt(MetaPos) = "orange" <=> (n > 0 /\ ~(n >= 120 /\ n <= 160))

\* C7 happens: a description of 120 characters is green.
C7_Witness ==
    /\ Audited
    /\ RealLength(page.metaContent) = 120
    /\ StatusAt(MetaPos) = "green"

\* The normalized keyword occurs in the normalized text (the empty string
\* occurs in every text).
PhraseOccurs(text, kw) == Includes(normalizeForMatch(text), normalizeForMatch(kw))

\* C8 as stated: red for 0 or at least 2 H1; with one H1, green if the
\* normalized keyword is a substring of the normalized H1, orange otherwise.
C8_H1AsStated ==
    Audited =>
        IF Len(page.h1) # 1 THEN StatusAt(H1Pos) = "red"
        ELSE IF PhraseOccurs(page.h1[1], keyword) THEN StatusAt(H1Pos) = "green"
        ELSE StatusAt(H1Pos) = "orange"

\* C8, amended: red for 0 or at least 2 H1; with one H1, green if the
\* normalized keyword is not empty and is a substring of the normalized H1,
\* orange otherwise.
C8_H1Status ==
    Audited =>
        IF Len(page.h1) # 1 THEN StatusAt(H1Pos) = "red"
        ELSE IF normalizeForMatch(keyword) # <<>> /\ PhraseOccurs(page.h1[1], keyword)
             THEN StatusAt(H1Pos) = "green"
        ELSE StatusAt(H1Pos) = "orange"

\* C8 happens: two H1 that both hold the keyword give red.
C8_Witness ==
    /\ Audited
    /\ Len(page.h1) = 2
    /\ \A i \in 1..2 : PhraseOccurs(page.h1[i], keyword) /\ normalizeForMatch(keyword) # <<>>
    /\ StatusAt(H1Pos) = "red"

\* C9: the keyword-structure result looks at three locations, intro, H2 and
\* conclusion: data.missing lists the unsatisfied ones, in that order, and
\* the status is green for three satisfied locations, orange for two, red for
\* one or none.
C9_KeywordStructure ==
    Audited =>
        LET d == checks[KeywordStructurePos].data
            satisfied == {l \in {"intro", "H2", "conclusion"} :
                            \/ l = "intro" /\ d.ok_intro
                            \/ l = "H2" /\ d.ok_h2
                            \/ l = "conclusion" /\ d.ok_conclusion}
            n == Cardinality(satisfied)
        IN  /\ DOMAIN d = {"ok_intro", "ok_h2", "ok_conclusion", "missing"}
            /\ d.missing = SelectSeq(<<"intro", "H2", "conclusion">>, LAMBDA l : l \notin satisfied)
            /\ StatusAt(KeywordStructurePos) = "green" <=> n = 3
            /\ StatusAt(KeywordStructurePos) = "orange" <=> n = 2
            /\ StatusAt(KeywordStructurePos) = "red" <=> n <= 1

\* C9 happens: the keyword is in the intro and in an H2 but not in the
\* conclusion; the result is orange and missing is <<"conclusion">>.
C9_Witness ==
    /\ Audited
    /\ PhraseOccurs(extracted.intro, keyword)
    /\ \E i \in 1..Len(extracted.h2s) : PhraseOccurs(extracted.h2s[i], keyword)
    /\ ~PhraseOccurs(extracted.conclusion, keyword)
    /\ StatusAt(KeywordStructurePos) = "orange"
    /\ checks[KeywordStructurePos].data.missing = <<"conclusion">>

\* The tokens of a keyword: the words of its normalized form that count at
\* least 3 characters.
KeywordTokens(kw) ==
    LET words == SplitSpace(normalizeForMatch(kw))
    IN  {words[i] : i \in {j \in 1..Len(words) : Len(words[j]) >= 3}}

\* Every token of the keyword occurs in the normalized text, and there is one.
AllTokensOccur(text, kw) ==
    /\ KeywordTokens(kw) # {}
    /\ \A tok \in KeywordTokens(kw) : Includes(normalizeForMatch(text), tok)

\* The normalized keyword is not empty and occurs, as one piece, in the
\* normalized text.
WholePhraseOccurs(text, kw) == normalizeForMatch(kw) # <<>> /\ PhraseOccurs(text, kw)

LongTokens(kw) == {tok \in KeywordTokens(kw) : Len(tok) >= 6}
ShortTokens(kw) ==
    LET words == SplitSpace(normalizeForMatch(kw))
    IN  {words[i] : i \in {j \in 1..Len(words) : Len(words[j]) > 0 /\ Len(words[j]) < 6}}

\* tok does not occur in the normalized text.
TokenAbsent(text, tok) == ~Includes(normalizeForMatch(text), tok)

C12_ShortTokenLiteral ==
    Audited =>
        \A tok \in ShortTokens(keyword) :
            LET d == checks[KeywordStructurePos].data
            IN  /\ (TokenAbsent(extracted.intro, tok) /\ d.ok_intro) = FALSE
                /\ d.ok_h2 => \E i \in 1..Len(extracted.h2s) : ~TokenAbsent(extracted.h2s[i], tok)
                /\ (TokenAbsent(extracted.conclusion, tok) /\ d.ok_conclusion) = FALSE
                /\ StatusAt(H1Pos) = "green" => ~TokenAbsent(extracted.h1s[1], tok)

\* C12 happens: the keyword normalizes to "seo", the only H2 is
\* "visibilite sao", one substitution away, and the H2 location does not
\* count.
C12_Witness ==
    /\ Audited
    /\ normalizeForMatch(keyword) = W_seo
    /\ extracted.h2s = <<H_sao>>
    /\ NearWord(extracted.h2s[1], W_seo)
    /\ ~checks[KeywordStructurePos].data.ok_h2

\* No location counts as containing the keyword, the keyword-structure result
\* is red and the h1 result is not green.
KeywordNowhere ==
    LET d == checks[KeywordStructurePos].data
    IN  /\ ~d.ok_intro
        /\ ~d.ok_h2
        /\ ~d.ok_conclusion
        /\ StatusAt(KeywordStructurePos) = "red"
        /\ StatusAt(H1Pos) # "green"

\* A location whose text normalizes to the empty string does not count.
EmptyLocationsNotCounted ==
    LET d == checks[KeywordStructurePos].data
    IN  /\ normalizeForMatch(extracted.intro) = <<>> => ~d.ok_intro
        /\ (\A i \in 1..Len(extracted.h2s) : normalizeForMatch(extracted.h2s[i]) = <<>>) => ~d.ok_h2
        /\ normalizeForMatch(extracted.conclusion) = <<>> => ~d.ok_conclusion
        /\ (Len(extracted.h1s) = 1 /\ normalizeForMatch(extracted.h1s[1]) = <<>>)
               => StatusAt(H1Pos) # "green"

Range(s) == {s[i] : i \in 1..Len(s)}

\* The generic vocabulary together with the words of the normalized keyword
\* that count at least four characters.
ExpectedTerms(kw) ==
    Range(generic) \cup {w \in Range(SplitSpace(normalizeForMatch(kw))) : Len(w) >= 4}

\* The normalized text of title, description, H1s, H2s, intro and conclusion,
\* put one after the other.
LexicalText ==
    normalizeForMatch(JoinSpace(<<extracted.title, extracted.meta_description>>
                                \o extracted.h1s \o extracted.h2s
                                \o <<extracted.intro, extracted.conclusion>>))

\* C14: the expected terms of the lexical result are, without duplicates, the
\* generic vocabulary and the keyword's normalized words of four characters
\* or more; the found terms are the expected terms that occur in the
\* normalized text of title, description, H1s, H2s, intro and conclusion; the
\* status is green for four or more found terms, orange for two or three, red
\* for one or none.
C14_Lexical ==
    Audited =>
        LET d == checks[LexicalPos].data
            text == LexicalText
            foundTerms == {term \in ExpectedTerms(keyword) : Includes(text, term)}
            n == Cardinality(foundTerms)
        IN  /\ Range(d.expected) = ExpectedTerms(keyword)
            /\ Len(d.expected) = Cardinality(ExpectedTerms(keyword))
            /\ Range(d.found) = foundTerms
            /\ Len(d.found) = n
            /\ d.found_count = n
            /\ StatusAt(LexicalPos) = "green" <=> n >= 4
            /\ StatusAt(LexicalPos) = "orange" <=> (n = 2 \/ n = 3)
            /\ StatusAt(LexicalPos) = "red" <=> n <= 1

\* C14 happens: the keyword is "site page", two words that the generic
\* vocabulary already holds; the expected terms are the seven generic ones,
\* three of them (seo, site, page) are found and the result is orange.
C14_Witness ==
    /\ Audited
    /\ keyword = KW_site
    /\ page = GoodPage
    /\ Len(checks[LexicalPos].data.expected) = 7
    /\ Range(checks[LexicalPos].data.found) = {W_seo, <<"s","i","t","e">>, <<"p","a","g","e">>}
    /\ checks[LexicalPos].data.found_count = 3
    /\ StatusAt(LexicalPos) = "orange"

\* The entries of a list of raw texts that are not empty once their
\* whitespace is collapsed.
NonEmptyEntries(l) == SelectSeq(MapSeq(l, cleanText), LAMBDA t : t # <<>>)

\* C16 as stated: heading entries that are empty after whitespace collapsing
\* are removed before any rule uses them: the h1 result counts the non-empty
\* H1 only, and the structure result is green for two or more non-empty H2,
\* orange for exactly one, red for none.
C16_EmptyHeadingsRemoved ==
    Audited =>
        LET h1Count == Len(NonEmptyEntries(page.h1))
            h2Count == Len(NonEmptyEntries(page.h2))
        IN  /\ extracted.h1s = NonEmptyEntries(page.h1)
            /\ extracted.h2s = NonEmptyEntries(page.h2)
            /\ checks[H1Pos].data.count = h1Count
            /\ StatusAt(H1Pos) = "red" <=> h1Count # 1
            /\ checks[StructurePos].data.h2_count = h2Count
            /\ StatusAt(StructurePos) = "green" <=> h2Count >= 2
            /\ StatusAt(StructurePos) = "orange" <=> h2Count = 1
            /\ StatusAt(StructurePos) = "red" <=> h2Count = 0

\* The paragraphs of the page, whitespace collapsed, that count at least 40
\* code points.
QualifyingParagraphs == SelectSeq(MapSeq(page.p, cleanText), LAMBDA t : Len(t) >= 40)

\* C17 as stated: intro is the first and conclusion the last paragraph of at
\* least 40 real characters; both are empty when there is none, and equal
\* when there is exactly one.
C17_IntroConclusionByRealCount ==
    Audited =>
        LET q == QualifyingParagraphs
        IN  /\ extracted.intro = (IF Len(q) = 0 THEN <<>> ELSE q[1])
            /\ extracted.conclusion = (IF Len(q) = 0 THEN <<>> ELSE q[Len(q)])
            /\ extracted.intro # <<>> => Len(extracted.intro) >= 40
            /\ extracted.conclusion # <<>> => Len(extracted.conclusion) >= 40
            /\ Len(q) = 1 => extracted.intro = extracted.conclusion

\* The number of words of a raw text: its maximal runs of characters that
\* are not whitespace.
WordRuns(raw) ==
    Cardinality({i \in 1..Len(raw) :
                    raw[i] \notin Whitespace /\ (i = 1 \/ raw[i - 1] \in Whitespace)})

\* The word counts of the paragraphs of the page that hold a word.
NonEmptyParagraphWords == SelectSeq(MapSeq(page.p, WordRuns), LAMBDA n : n > 0)

\* C18: the average is the mean word count of all non-empty paragraphs,
\* whatever their length, rounded to the nearest integer, and 0 without
\* paragraphs; the long paragraphs are those of more than 120 words, so a
\* paragraph of exactly 120 words is not long and the count never exceeds the
\* number of non-empty paragraphs.
C18_ParagraphStatistics ==
    Audited =>
        LET counts == NonEmptyParagraphWords
            n == Len(counts)
            total == Sum(counts)
            avg == extracted.avg_words_per_paragraph
            long == extracted.long_paragraphs_count
        IN  /\ n = 0 => avg = 0
            /\ n > 0 => (2 * total - n <= 2 * n * avg /\ 2 * n * avg <= 2 * total + n)
            /\ long = Len(SelectSeq(counts, LAMBDA c : c > 120))
            /\ long <= n
            /\ checks[ReadabilityPos].data.avg_words_per_paragraph = avg
            /\ checks[ReadabilityPos].data.long_paragraphs_count = long

\* C18 happens: the only paragraph counts exactly 120 words; the average is
\* 120 and no paragraph is long.
C18_Witness ==
    /\ Audited
    /\ NonEmptyParagraphWords = <<120>>
    /\ extracted.avg_words_per_paragraph = 120
    /\ extracted.long_paragraphs_count = 0
    /\ StatusAt(ReadabilityPos) = "green"

\* The order of the statuses: green < orange < red.
Rank(st) == CASE st = "green" -> 0 [] st = "orange" -> 1 [] st = "red" -> 2

\* Rearrangements of a list: two results exchanged, the list rotated, the
\* list reversed.
Swap(cs, i, j) == [cs EXCEPT ![i] = cs[j], ![j] = cs[i]]
Rotate(cs, k) == [i \in 1..Len(cs) |-> cs[((i + k - 1) % Len(cs)) + 1]]
Reverse(cs) == [i \in 1..Len(cs) |-> cs[Len(cs) + 1 - i]]

\* C19: giving any one result a worse status never makes the overall status
\* better, and the overall status is the same when the results appear in
\* another order (any two exchanged, any rotation, the reverse order).
C19_MonotoneOrderFree ==
    pc = "aggregated" =>
        /\ \A i \in 1..Len(checks), worse \in Statuses :
               Rank(worse) >= Rank(StatusAt(i)) =>
                   Rank(statusGlobalFromChecks([checks EXCEPT ![i].status = worse]))
                       >= Rank(status_global)
        /\ \A i, j \in 1..Len(checks) : statusGlobalFromChecks(Swap(checks, i, j)) = status_global
        /\ \A k \in 1..Len(checks) : statusGlobalFromChecks(Rotate(checks, k)) = status_global
        /\ statusGlobalFromChecks(Reverse(checks)) = status_global

\* C19 happens: meta_description is red, h1 is orange, the rest is green and
\* the overall status is orange; turning h1 red makes it red, and exchanging
\* the two results leaves it orange.
C19_Witness ==
    /\ pc = "aggregated"
    /\ StatusAt(MetaPos) = "red"
    /\ StatusAt(H1Pos) = "orange"
    /\ \A i \in (1..8) \ {MetaPos, H1Pos} : StatusAt(i) = "green"
    /\ status_global = "orange"
    /\ statusGlobalFromChecks([checks EXCEPT ![H1Pos].status = "red"]) = "red"
    /\ statusGlobalFromChecks(Swap(checks, MetaPos, H1Pos)) = "orange"

\* The request carries a url and a keyword, and the url is an http or https
\* one.
ValidRequest == url # "" /\ keyword # <<>> /\ URLProtocol(url) \in {"http:", "https:"}

\* The exchange brought an OK response of type text/html whose body was read.
FetchedHtml ==
    /\ fetched.kind = "response"
    /\ fetched.status >= 200 /\ fetched.status <= 299
    /\ fetched.contentType = "text/html; charset=utf-8"
    /\ fetched.body = "read"

\* The exchange failed: the status the error response must carry (422 for an
\* OK response that is not HTML, 504 for an abort by the timer, 502 for a
\* response that is not OK and for any other failure).
FailureStatus ==
    IF fetched.kind = "aborted" THEN 504
    ELSE IF fetched.kind = "network_error" THEN 502
    ELSE IF ~(fetched.status >= 200 /\ fetched.status <= 299) THEN 502
    ELSE IF fetched.contentType # "text/html; charset=utf-8" THEN 422
    ELSE 504

NoAuditSent == checks = <<>> /\ status_global = ""

ResponseDiscipline ==
    /\ responses <= 1
    /\ pc = "responded" <=> responses = 1
    /\ httpStatus # 0 <=> responses = 1
    /\ fetched # NotStarted => ValidRequest
    /\ pc = "responded" =>
         IF ~ValidRequest THEN httpStatus = 400 /\ fetched = NotStarted /\ NoAuditSent
         ELSE IF FetchedHtml
              THEN httpStatus = 200 /\ Len(checks) = 8 /\ status_global \in Statuses
         ELSE /\ fetched.kind \in {"aborted", "network_error", "response"}
              /\ httpStatus = FailureStatus
              /\ NoAuditSent

\* C20: every request gets exactly one response.  A request without url or
\* keyword, or whose url is not http(s), gets a 400 and no fetch is started;
\* the audit (eight results and the overall status) is sent, with a 200, only
\* for a valid request whose fetch brought an OK text/html response; a failed
\* fetch gets 422, 502 or 504 and no audit.
C20_ExactlyOneResponse == []ResponseDiscipline /\ <>(responses = 1)

\* C20 happens: the fetch brought a 200 response of type application/pdf and
\* the one response sent is a 422 without audit.
C20_Witness ==
    /\ pc = "responded"
    /\ ValidRequest
    /\ fetched.kind = "response"
    /\ fetched.status = 200
    /\ fetched.contentType = "application/pdf"
    /\ httpStatus = 422
    /\ errorCode = "NOT_HTML"
    /\ responses = 1
    /\ NoAuditSent

\* C15: whatever the interleaving of the requests in flight, the results and
\* the overall status sent for a request are those of the audit of its own
\* page for its own keyword run alone; two requests for the same page and
\* keyword get the same results.
C15_AuditsIndependent ==
    pc = "serving" =>
        /\ \A r \in 1..Len(inflight) :
               inflight[r].httpStatus = 200 =>
                   LET alone == computeChecks(Extract(inflight[r].page), inflight[r].keyword)
                   IN  /\ inflight[r].checks = alone
                       /\ inflight[r].status_global = statusGlobalFromChecks(alone)
        /\ \A r, q \in 1..Len(inflight) :
               ( /\ inflight[r].httpStatus = 200
                 /\ inflight[q].httpStatus = 200
                 /\ inflight[r].page = inflight[q].page
                 /\ inflight[r].keyword = inflight[q].keyword )
               => ( /\ inflight[r].checks = inflight[q].checks
                    /\ inflight[r].status_global = inflight[q].status_global )

\* C15 happens: two requests for the same page with different keywords were
\* in flight together, the one received first was answered last, and each
\* got the h1 result of its own keyword: green for "coaching seo", orange
\* for the keyword of punctuation.
C15_Witness ==
    /\ pc = "serving"
    /\ Len(inflight) = 2
    /\ inflight[1].keyword = KW_phrase
    /\ inflight[2].keyword = KW_symbols
    /\ inflight[1].page = [EmptyPage EXCEPT !.h1 = <<H_kw>>]
    /\ inflight[2].page = inflight[1].page
    /\ inflight[1].served = 2
    /\ inflight[2].served = 1
    /\ inflight[1].checks[H1Pos].status = "green"
    /\ inflight[2].checks[H1Pos].status = "orange"

=============================================================================
